---- MODULE Spec2Model ----
(***************************************************************************)
(* Read-only state capsule (capsules/extra/src/read_only_state.rs), and    *)
(* the MAC address type of chips/stm32f429zi/src/ethernet/utils.rs.        *)
(*                                                                         *)
(* The kernel publishes, on every switch away from a process, a switch     *)
(* counter, the pending-task count and a clock reading into a buffer the   *)
(* process has offered.  The model keeps, per process, the grant record    *)
(* (App.count), the process memory that holds the offered buffer, and the  *)
(* length the process currently offers.                                    *)
(*                                                                         *)
(* Numbers wider than TLC's integers are kept as sequences of 16-bit       *)
(* limbs, most significant limb first: a u32 is <<hi, lo>>, a u64 and a    *)
(* usize are <<l3, l2, l1, l0>> (usize is modelled 64 bits wide; a 32-bit  *)
(* target is the case where the two upper limbs are 0).                    *)
(***************************************************************************)
EXTENDS Integers, Sequences, FiniteSets, TLC

VARIABLES
    allocated,  \* processes whose grant (App record) is allocated
    count,      \* count[p]: App.count of p, a u32
    len,        \* len[p]: length of the buffer p currently offers (0: none)
    mem,        \* mem[p]: p's memory from the buffer's first byte on
    panicked,   \* the kernel has panicked (an unwrap of Err, a slice fault)
    cycles,     \* cycles[p]: completed publish cycles of p in this run
    fit,        \* fit[p]: each of them saw a buffer of at least 4 bytes
    wrote,      \* wrote[p]: what the most recent of them saw and wrote
    twin,       \* a second run of the same operations on other memory contents
    last,       \* what the last operation was, its inputs and its result
    mac_address, \* a MacAddress: its six bytes
    report      \* what the three predicates answered for mac_address

capsule == <<allocated, count, len, mem, panicked, cycles, fit, wrote, twin, last>>
ethernet == <<mac_address, report>>
vars == <<capsule, ethernet>>

----------------------------------------------------------------------------
(* Bounds of the model *)

\* Largest buffer length a process offers; also the size of mem[p].
MaxLen == 17
\* Publish cycles modelled per process.
MaxCycles == 2
\* Publish cycles modelled over all processes.
MaxTotalCycles == 3
\* Largest command number tried.
MaxCmd == 2

Procs == {1, 2}
Limb == 256 * 256
Byte == 0 .. 255

\* usize values a process reports as pending tasks: 3, 5 and 2^32 + 0x01020304.
PendingVals == {<<0, 0, 0, 3>>, <<0, 0, 0, 5>>, <<0, 1, 258, 772>>}
\* usize values the clock reads: 100, 250 and 0x0102030405060708.
NowVals == {<<0, 0, 0, 100>>, <<0, 0, 0, 250>>, <<258, 772, 1286, 1800>>}
\* Bytes the process fills its own memory with; its memory starts as InitFill.
FillVals == {85, 170}
InitFill == CHOOSE f \in FillVals : \A g \in FillVals : f >= g
\* The inputs of the two publish cycles of the specification's example.
ExampleInputs == {<<<<0, 0, 0, 3>>, <<0, 0, 0, 100>>>>, <<<<0, 0, 0, 5>>, <<0, 0, 0, 250>>>>}
\* Buffer lengths offered in the system of several processes: none, the
\* length of the specification's example and the full version-1 record.
Lens == {0, 8, 16}

----------------------------------------------------------------------------
(* Values *)

VERSION == 1

\* #[derive(Default)] App { count: Cell<u32> }: the counter of a new record.
AppDefault == <<0, 0>>

\* Faulty variant: the counter is never advanced.
WrappingAdd1Stuck(c) == c

\* Faulty variant: saturating_add, which stays at the largest u32.
SaturatingAdd1(c) ==
    IF c = <<Limb - 1, Limb - 1>>
    THEN c
    ELSE IF c[2] = Limb - 1 THEN <<c[1] + 1, 0>> ELSE <<c[1], c[2] + 1>>

\* u32::wrapping_add(count, 1)
WrappingAdd1(c) ==
    IF c[2] = Limb - 1
    THEN <<(c[1] + 1) % Limb, 0>>
    ELSE <<c[1], c[2] + 1>>

\* Faulty variant: a saturating conversion, the largest u32 for a value that does
\* not fit.
AsU32Saturating(u) ==
    IF u[1] = 0 /\ u[2] = 0 THEN <<u[3], u[4]>> ELSE <<Limb - 1, Limb - 1>>

\* pending_tasks as u32: the low 32 bits of a usize
AsU32(u) == <<u[3], u[4]>>

\* into_usize() as u64: zero extension of a usize to 64 bits
AsU64(u) == [k \in 1 .. 4 |-> IF k > 4 - Len(u) THEN u[k - (4 - Len(u))] ELSE 0]

\* Faulty variant: to_be_bytes, the most significant byte first.
ToBeBytes(v) ==
    [i \in 1 .. 2 * Len(v) |->
        LET limb == v[(i + 1) \div 2]
        IN  IF i % 2 = 1 THEN limb \div 256 ELSE limb % 256]

\* to_le_bytes: byte i (0-based) is (value div 256^i) mod 256
ToLeBytes(v) ==
    [i \in 1 .. 2 * Len(v) |->
        LET limb == v[Len(v) - ((i - 1) \div 2)]
        IN  IF (i - 1) % 2 = 0 THEN limb % 256 ELSE limb \div 256]

----------------------------------------------------------------------------
(* The closure given to mut_enter: the writes into the offered buffer *)

\* if buf.len() >= 4
CountFits(n) == n >= 4

\* Faulty variant: the pending-task field is written as soon as its first byte fits.
PendingFitsPartial(n) == n >= 5
\* if buf.len() >= 8
PendingFits(n) == n >= 8

\* Faulty variant: the tick field is written whenever the pending-task field fits.
TicksFitsEarly(n) == n >= 8
\* if buf.len() >= 16
TicksFits(n) == n >= 16

\* buf[lo..hi].copy_from_slice(src) on a slice of length acc.n over acc.mem.
\* Indexing past the slice, or a source of another length, faults (a Rust
\* panic) and writes nothing; range collects the indices addressed.
CopyFromSlice(acc, lo, hi, src) ==
    IF acc.fault
    THEN acc
    ELSE [n     |-> acc.n,
          range |-> acc.range \cup (lo .. hi - 1),
          fault |-> hi > acc.n \/ Len(src) # hi - lo,
          mem   |-> IF hi > acc.n \/ Len(src) # hi - lo
                    THEN acc.mem
                    ELSE [i \in 1 .. Len(acc.mem) |->
                            IF i > lo /\ i <= hi THEN src[i - lo] ELSE acc.mem[i]]]

\* Faulty variant: the counter is advanced first and the advanced value written.
PublishFieldsAdvanced(m, n, cnt, pending_tasks, now) ==
    LET a0 == [n |-> n, range |-> {}, fault |-> FALSE, mem |-> m]
        a1 == IF CountFits(n)
              THEN CopyFromSlice(a0, 0, 4, ToLeBytes(WrappingAdd1(cnt)))
              ELSE a0
        a2 == IF ~a1.fault /\ PendingFits(n)
              THEN CopyFromSlice(a1, 4, 8, ToLeBytes(AsU32(pending_tasks)))
              ELSE a1
        a3 == IF ~a2.fault /\ TicksFits(n)
              THEN CopyFromSlice(a2, 8, 16, ToLeBytes(AsU64(now)))
              ELSE a2
    IN  a3

\* Faulty variant: the low byte of the switch count is taken from the buffer
\* and advanced there, instead of from the record.
PublishFieldsTrusting(m, n, cnt, pending_tasks, now) ==
    LET a0 == [n |-> n, range |-> {}, fault |-> FALSE, mem |-> m]
        a1 == IF CountFits(n)
              THEN CopyFromSlice(a0, 0, 4,
                        [ToLeBytes(cnt) EXCEPT ![1] = (m[1] + 1) % 256])
              ELSE a0
        a2 == IF ~a1.fault /\ PendingFits(n)
              THEN CopyFromSlice(a1, 4, 8, ToLeBytes(AsU32(pending_tasks)))
              ELSE a1
        a3 == IF ~a2.fault /\ TicksFits(n)
              THEN CopyFromSlice(a2, 8, 16, ToLeBytes(AsU64(now)))
              ELSE a2
    IN  a3

\* |buf| { ... }: m is the process memory, n the length of the slice buf
PublishFields(m, n, cnt, pending_tasks, now) ==
    LET a0 == [n |-> n, range |-> {}, fault |-> FALSE, mem |-> m]
        a1 == IF CountFits(n)
              THEN CopyFromSlice(a0, 0, 4, ToLeBytes(cnt))
              ELSE a0
        a2 == IF ~a1.fault /\ PendingFits(n)
              THEN CopyFromSlice(a1, 4, 8, ToLeBytes(AsU32(pending_tasks)))
              ELSE a1
        a3 == IF ~a2.fault /\ TicksFits(n)
              THEN CopyFromSlice(a2, 8, 16, ToLeBytes(AsU64(now)))
              ELSE a2
    IN  a3

----------------------------------------------------------------------------
(* The grant *)

\* Grant::enter(processid, ..): a process whose record is allocated is
\* entered; a first use allocates the record, which may fail.
GrantEnterOutcomes(p) == IF p \in allocated THEN {"Ok"} ELSE {"Ok", "Err"}

\* The record the closure of enter is handed: the existing one, or a new
\* App::default().
GrantRecord(p) == IF p \in allocated THEN count[p] ELSE AppDefault

\* The length of the slice mut_enter hands its closure: what p offers now.
BufferLen(p) == len[p]

----------------------------------------------------------------------------
(* Commands *)

CommandSuccess == [kind |-> "success", value |-> 0, err |-> "none"]
CommandSuccessU32(v) == [kind |-> "success_u32", value |-> v, err |-> "none"]
CommandFailure(e) == [kind |-> "failure", value |-> 0, err |-> e]
NoRet == [kind |-> "none", value |-> 0, err |-> "none"]

\* Faulty variant: no default arm; every number but 0 answers with the version.
CommandResultNoDefault(command_number) ==
    IF command_number = 0 THEN CommandSuccess ELSE CommandSuccessU32(VERSION)

\* match command_number { 0 => .., 1 => .., _ => .. }
CommandResult(command_number) ==
    CASE command_number = 0 -> CommandSuccess
      [] command_number = 1 -> CommandSuccessU32(VERSION)
      [] OTHER -> CommandFailure("NOSUPPORT")

----------------------------------------------------------------------------
(* The record of the last operation *)

\* op, proc: the operation and the process it was for; arg: the command
\* number; granted: what Grant::enter returned; ret: what the operation
\* returned; pending, now: the inputs of a publish cycle; read: the counter
\* it read; buflen: the length of the slice its closure saw (-1: the closure
\* did not run); range: the buffer indices its closure addressed.
NoHook == [pending |-> <<>>, now |-> <<>>, read |-> <<>>, buflen |-> -1,
           range |-> {}]

Last(op, p, arg, granted, ret, h) ==
    [op |-> op, proc |-> p, arg |-> arg, granted |-> granted, ret |-> ret,
     pending |-> h.pending, now |-> h.now, read |-> h.read,
     buflen |-> h.buflen, range |-> h.range]

\* What a publish cycle wrote: count, pending and ticks are the counter, the
\* pending-task count and the clock reading it wrote, <<>> for a field it did
\* not address.  Overwritten stands for it once the process has written
\* its memory itself.
NoWrite == [own |-> FALSE, count |-> <<>>, pending |-> <<>>, ticks |-> <<>>]
Overwritten == [own |-> TRUE, count |-> <<>>, pending |-> <<>>, ticks |-> <<>>]

Written(w, cnt, pending_tasks, now) ==
    [own     |-> FALSE,
     count   |-> IF 0 \in w.range THEN cnt ELSE <<>>,
     pending |-> IF 4 \in w.range THEN pending_tasks ELSE <<>>,
     ticks   |-> IF 8 \in w.range THEN now ELSE <<>>]

\* The second run: the same operations with the same inputs and the same
\* answers of the grant, on a memory whose bytes are different wherever the
\* process has put them (initially and whenever it fills its memory).
TwinFill(f) == CHOOSE g \in FillVals : g # f

\* The publish cycle of p in the second run.
TwinAfterHook(p, pending_tasks, now, entered) ==
    LET cnt == IF p \in allocated THEN twin.count[p] ELSE AppDefault
        w   == IF entered
               THEN PublishFields(twin.mem[p], BufferLen(p), cnt, pending_tasks, now)
               ELSE [n |-> -1, range |-> {}, fault |-> FALSE, mem |-> twin.mem[p]]
    IN  [mem      |-> [twin.mem EXCEPT ![p] = w.mem],
         count    |-> [twin.count EXCEPT ![p] = IF w.fault THEN cnt ELSE WrappingAdd1(cnt)],
         panicked |-> w.fault]

----------------------------------------------------------------------------
(* MAC addresses *)

\* struct MacAddress(pub [u8; 6])
MacLen == 6

\* a & b on bytes
RECURSIVE BitAnd(_, _)
BitAnd(a, b) ==
    IF a = 0 \/ b = 0 THEN 0
    ELSE (a % 2) * (b % 2) + 2 * BitAnd(a \div 2, b \div 2)

BROADCAST_MAC_ADDRESS == [i \in 1 .. MacLen |-> 255]

\* MacAddress::default()
MacDefault == [i \in 1 .. MacLen |-> 0]

\* self.0[0] == 0xFF && .. && self.0[5] == 0xFF
IsBroadcast(a) ==
    a[1] = 255 /\ a[2] = 255 /\ a[3] = 255 /\ a[4] = 255 /\ a[5] = 255 /\ a[6] = 255

\* Faulty variant: the mask selects the highest bit of the first byte.
IsMulticastHighBit(a) == BitAnd(a[1], 128) # 0

\* self.0[0] & 0x1 != 0
IsMulticast(a) == BitAnd(a[1], 1) # 0

\* !self.is_multicast() && !self.is_broadcast()
IsUnicast(a) == ~IsMulticast(a) /\ ~IsBroadcast(a)

\* Bytes an address is changed to, one at a time.
MacBytes == {0, 19, 254, 255}
\* Addresses constructed whole: those of the unit test, and the broadcast address.
MacExamples == {<<17, 34, 51, 68, 85, 102>>, <<18, 52, 86, 120, 144, 171>>,
                <<19, 52, 86, 120, 144, 171>>, BROADCAST_MAC_ADDRESS}

NoReport == [broadcast |-> FALSE, multicast |-> FALSE, unicast |-> FALSE,
             asked |-> FALSE]

\* MacAddress::new(bytes)
MacNew(bytes) ==
    /\ mac_address # bytes
    /\ mac_address' = bytes
    /\ report' = NoReport
    /\ UNCHANGED capsule

\* mac_address.0[i] = b (the field is public)
MacSetByte(i, b) ==
    /\ mac_address[i] # b
    /\ mac_address' = [mac_address EXCEPT ![i] = b]
    /\ report' = NoReport
    /\ UNCHANGED capsule

\* is_broadcast(), is_multicast() and is_unicast() of the address
MacClassify ==
    /\ ~report.asked
    /\ report' = [broadcast |-> IsBroadcast(mac_address),
                  multicast |-> IsMulticast(mac_address),
                  unicast   |-> IsUnicast(mac_address),
                  asked     |-> TRUE]
    /\ UNCHANGED <<mac_address, capsule>>

----------------------------------------------------------------------------
(* Initial states *)

InitCommon ==
    /\ len = [p \in Procs |-> 0]
    /\ mem = [p \in Procs |-> [i \in 1 .. MaxLen |-> InitFill]]
    /\ panicked = FALSE
    /\ cycles = [p \in Procs |-> 0]
    /\ fit = [p \in Procs |-> TRUE]
    /\ wrote = [p \in Procs |-> NoWrite]
    /\ twin = [mem |-> [p \in Procs |-> [i \in 1 .. MaxLen |-> TwinFill(InitFill)]],
               count |-> count, panicked |-> FALSE]
    /\ last = Last("boot", 0, -1, "none", NoRet, NoHook)
    /\ mac_address = MacDefault
    /\ report = NoReport

\* After ReadOnlyStateDriver::new: no process has a record.
Init ==
    /\ allocated = {}
    /\ count = [p \in Procs |-> AppDefault]
    /\ InitCommon

\* A long-running system: process 1 has been switched away from 2^32 - 2
\* times since its record was allocated.
InitLate ==
    /\ allocated = {1}
    /\ count = [p \in Procs |-> IF p = 1 THEN <<Limb - 1, Limb - 2>> ELSE AppDefault]
    /\ InitCommon

----------------------------------------------------------------------------
(* Operations *)

TotalCycles == cycles[1] + cycles[2]

\* Faulty variant: one counter in the driver, shared by every process.
StoreCountShared(p, c) == [q \in Procs |-> c]

\* app.count.set(c) on the record the grant holds for p
StoreCount(p, c) == [count EXCEPT ![p] = c]

\* Faulty variant: the closure writes a copy, which never reaches the process.
StoreBufferLost(p, m) == mem

\* the closure's writes land in the memory of the process that was entered
StoreBuffer(p, m) == [mem EXCEPT ![p] = m]

\* Faulty variant: the counter is advanced only by a cycle that wrote it.
ContextSwitchHookCountingWrites(p, pending_tasks, now, granted, entered) ==
    /\ ~panicked
    /\ UNCHANGED ethernet
    /\ cycles[p] < MaxCycles
    /\ TotalCycles < MaxTotalCycles
    /\ granted \in GrantEnterOutcomes(p)
    /\ IF granted = "Err"
       THEN \* .unwrap() of Err
            /\ panicked' = TRUE
            /\ last' = Last("hook", p, -1, granted, NoRet,
                            [NoHook EXCEPT !.pending = pending_tasks, !.now = now])
            /\ twin' = [twin EXCEPT !.panicked = TRUE]
            /\ UNCHANGED <<allocated, count, len, mem, cycles, fit, wrote>>
       ELSE LET cnt == GrantRecord(p)
                n   == BufferLen(p)
                w   == IF entered
                       THEN PublishFields(mem[p], n, cnt, pending_tasks, now)
                       ELSE [n |-> -1, range |-> {}, fault |-> FALSE, mem |-> mem[p]]
            IN  /\ allocated' = allocated \cup {p}
                /\ mem' = StoreBuffer(p, w.mem)
                /\ panicked' = w.fault
                /\ count' = IF w.fault \/ 0 \notin w.range THEN StoreCount(p, cnt)
                            ELSE StoreCount(p, WrappingAdd1(cnt))
                /\ cycles' = IF w.fault THEN cycles
                             ELSE [cycles EXCEPT ![p] = @ + 1]
                /\ fit' = [fit EXCEPT ![p] = @ /\ w.n >= 4]
                /\ wrote' = IF w.fault THEN wrote
                            ELSE [wrote EXCEPT ![p] = Written(w, cnt, pending_tasks, now)]
                /\ twin' = TwinAfterHook(p, pending_tasks, now, entered)
                /\ last' = Last("hook", p, -1, granted, NoRet,
                                [pending |-> pending_tasks, now |-> now,
                                 read |-> cnt, buflen |-> w.n, range |-> w.range])
                /\ UNCHANGED len

\* ContextSwitchCallback::context_switch_hook
ContextSwitchHook(p, pending_tasks, now, granted, entered) ==
    /\ ~panicked
    /\ UNCHANGED ethernet
    /\ cycles[p] < MaxCycles
    /\ TotalCycles < MaxTotalCycles
    /\ granted \in GrantEnterOutcomes(p)
    /\ IF granted = "Err"
       THEN \* .unwrap() of Err
            /\ panicked' = TRUE
            /\ last' = Last("hook", p, -1, granted, NoRet,
                            [NoHook EXCEPT !.pending = pending_tasks, !.now = now])
            /\ twin' = [twin EXCEPT !.panicked = TRUE]
            /\ UNCHANGED <<allocated, count, len, mem, cycles, fit, wrote>>
       ELSE LET cnt == GrantRecord(p)
                n   == BufferLen(p)
                w   == IF entered
                       THEN PublishFields(mem[p], n, cnt, pending_tasks, now)
                       ELSE [n |-> -1, range |-> {}, fault |-> FALSE, mem |-> mem[p]]
            IN  /\ allocated' = allocated \cup {p}
                /\ mem' = StoreBuffer(p, w.mem)
                /\ panicked' = w.fault
                /\ count' = IF w.fault THEN StoreCount(p, cnt)
                            ELSE StoreCount(p, WrappingAdd1(cnt))
                /\ cycles' = IF w.fault THEN cycles
                             ELSE [cycles EXCEPT ![p] = @ + 1]
                /\ fit' = [fit EXCEPT ![p] = @ /\ w.n >= 4]
                /\ wrote' = IF w.fault THEN wrote
                            ELSE [wrote EXCEPT ![p] = Written(w, cnt, pending_tasks, now)]
                /\ twin' = TwinAfterHook(p, pending_tasks, now, entered)
                /\ last' = Last("hook", p, -1, granted, NoRet,
                                [pending |-> pending_tasks, now |-> now,
                                 read |-> cnt, buflen |-> w.n, range |-> w.range])
                /\ UNCHANGED len

\* Faulty variant: the command enters the grant of the caller, allocating its record.
CommandEnteringGrant(p, command_number) ==
    /\ ~panicked
    /\ UNCHANGED ethernet
    /\ allocated' = allocated \cup {p}
    /\ count' = StoreCount(p, GrantRecord(p))
    /\ last' = Last("command", p, command_number, "none",
                    CommandResult(command_number), NoHook)
    /\ UNCHANGED <<len, mem, panicked, cycles, fit, wrote, twin>>

\* SyscallDriver::command
Command(p, command_number) ==
    /\ ~panicked
    /\ UNCHANGED ethernet
    /\ last' = Last("command", p, command_number, "none",
                    CommandResult(command_number), NoHook)
    /\ UNCHANGED <<allocated, count, len, mem, panicked, cycles, fit, wrote, twin>>

\* Faulty variant: the result of enter is unwrapped and Ok(()) returned.
AllocateGrantUnwrap(p, granted) ==
    /\ ~panicked
    /\ UNCHANGED ethernet
    /\ granted \in GrantEnterOutcomes(p)
    /\ allocated' = IF granted = "Ok" THEN allocated \cup {p} ELSE allocated
    /\ count' = IF granted = "Ok" THEN StoreCount(p, GrantRecord(p)) ELSE count
    /\ panicked' = (granted = "Err")
    /\ last' = Last("allocate_grant", p, -1, granted,
                    [kind |-> "Ok", value |-> 0, err |-> "none"], NoHook)
    /\ UNCHANGED <<len, mem, cycles, fit, wrote, twin>>

\* SyscallDriver::allocate_grant: self.apps.enter(processid, |_, _| {})
AllocateGrant(p, granted) ==
    /\ ~panicked
    /\ UNCHANGED ethernet
    /\ granted \in GrantEnterOutcomes(p)
    /\ allocated' = IF granted = "Ok" THEN allocated \cup {p} ELSE allocated
    /\ count' = IF granted = "Ok" THEN StoreCount(p, GrantRecord(p)) ELSE count
    /\ last' = Last("allocate_grant", p, -1, granted,
                    [kind |-> granted, value |-> 0, err |-> "none"], NoHook)
    /\ UNCHANGED <<len, mem, panicked, cycles, fit, wrote, twin>>

\* The process offers a buffer of length l (the userspace-readable allow);
\* the kernel accepts it only for a process whose grant is allocated.
Allow(p, l) ==
    /\ ~panicked
    /\ UNCHANGED ethernet
    /\ p \in allocated
    /\ len[p] # l
    /\ len' = [len EXCEPT ![p] = l]
    /\ last' = Last("allow", p, -1, "none", NoRet, NoHook)
    /\ UNCHANGED <<allocated, count, mem, panicked, cycles, fit, wrote, twin>>

\* The process, running, fills its own memory with the byte f.
Scribble(p, f) ==
    /\ ~panicked
    /\ UNCHANGED ethernet
    /\ mem[p] # [i \in 1 .. MaxLen |-> f]
    /\ mem' = [mem EXCEPT ![p] = [i \in 1 .. MaxLen |-> f]]
    /\ wrote' = [wrote EXCEPT ![p] = Overwritten]
    /\ twin' = [twin EXCEPT !.mem[p] = [i \in 1 .. MaxLen |-> TwinFill(f)]]
    /\ last' = Last("scribble", p, -1, "none", NoRet, NoHook)
    /\ UNCHANGED <<allocated, count, len, panicked, cycles, fit>>

\* The operations of the processes P, which offer the lengths L, are switched
\* away from with the inputs In (<<pending tasks, clock reading>>) and fill
\* their memory with the bytes F.
NextOf(P, L, In, F) ==
    \/ \E p \in P, in \in In, g \in {"Ok", "Err"}, e \in BOOLEAN :
            ContextSwitchHook(p, in[1], in[2], g, e)
    \/ \E p \in P, c \in 0 .. MaxCmd : Command(p, c)
    \/ \E p \in P, g \in {"Ok", "Err"} : AllocateGrant(p, g)
    \/ \E p \in P, l \in L : Allow(p, l)
    \/ \E p \in P, f \in F : Scribble(p, f)

\* The system of several processes.
Next == NextOf(Procs, Lens, ExampleInputs, {InitFill})

\* One process alone, with every length up to MaxLen and every input.
NextSolo == NextOf({1}, 0 .. MaxLen, PendingVals \X NowVals, FillVals)

Spec == Init /\ [][Next]_vars

SpecSolo == Init /\ [][NextSolo]_vars

SpecLate == InitLate /\ [][Next]_vars

\* The operations on a MAC address.
NextMac ==
    \/ \E bytes \in MacExamples : MacNew(bytes)
    \/ \E i \in 1 .. MacLen, b \in MacBytes : MacSetByte(i, b)
    \/ MacClassify

SpecMac == Init /\ [][NextMac]_vars

----------------------------------------------------------------------------
(* What a reader of the buffer sees *)

\* The bytes at offsets lo .. hi - 1 of p's memory.
Bytes(p, lo, hi) == SubSeq(mem[p], lo + 1, hi)

\* A little-endian byte string read back as limbs, most significant first.
FromLeBytes(bs) ==
    [k \in 1 .. Len(bs) \div 2 |->
        LET j == Len(bs) \div 2 - k
        IN  bs[2 * j + 1] + 256 * bs[2 * j + 2]]

\* n < 2^31 as a u32.
U32OfNat(n) == <<n \div Limb, n % Limb>>

\* The low 32 bits of a usize, as a u32.
Low32(u) == SubSeq(u, Len(u) - 1, Len(u))

\* b = a + 1 modulo 2^32.
Succ32(a, b) ==
    \/ a[2] < Limb - 1 /\ b = <<a[1], a[2] + 1>>
    \/ a[2] = Limb - 1 /\ a[1] < Limb - 1 /\ b = <<a[1] + 1, 0>>
    \/ a = <<Limb - 1, Limb - 1>> /\ b = <<0, 0>>

\* The byte ranges of the version-1 fields that lie wholly within l bytes.
FieldsWithin(l) ==
    (IF l >= 4 THEN 0 .. 3 ELSE {}) \cup (IF l >= 8 THEN 4 .. 7 ELSE {})
        \cup (IF l >= 16 THEN 8 .. 15 ELSE {})

\* The last operation was a publish cycle of p whose closure ran.
Published(p) == last.op = "hook" /\ last.proc = p /\ last.buflen >= 0

----------------------------------------------------------------------------
(* C1: bounds safety.  Whatever lengths the process has offered before,    *)
(* no publish cycle addresses a byte of the buffer at an index at or       *)
(* beyond the length the buffer has during that cycle.                     *)
C1_BoundsSafety ==
    \A p \in Procs :
        Published(p) =>
            /\ last.buflen = len[p]
            /\ \A i \in last.range : i < len[p]

\* A cycle on a buffer the process shrank to 4 bytes after an earlier cycle
\* had written the tick field at offsets 8 .. 15.
C1_Witness ==
    /\ Published(1)
    /\ len[1] = 4
    /\ last.range = 0 .. 3
    /\ \E t \in NowVals : Bytes(1, 8, 16) = ToLeBytes(AsU64(t))

(* C2: whole-field truncation.  A publish cycle on a buffer of length L    *)
(* addresses exactly the fields that lie wholly within L, changes no byte  *)
(* outside them, and does not fault; for L = 0 it writes nothing.          *)
C2_WholeFields ==
    [][\A p \in Procs :
        (last'.op = "hook" /\ last'.proc = p /\ last'.buflen >= 0) =>
            /\ last'.buflen = len[p]
            /\ last'.range = FieldsWithin(len[p])
            /\ \A i \in 0 .. MaxLen - 1 :
                 i \notin FieldsWithin(len[p]) => mem'[p][i + 1] = mem[p][i + 1]
            /\ len[p] >= 4 => FromLeBytes(Bytes(p, 0, 4))' = last'.read
            /\ len[p] >= 8 => FromLeBytes(Bytes(p, 4, 8))' = Low32(last'.pending)
            /\ len[p] >= 16 => FromLeBytes(Bytes(p, 8, 16))' = last'.now
            /\ ~panicked']_vars

\* A cycle on a 15-byte buffer: two fields written, the tick field's bytes
\* 8 .. 14 still as the process left them.
C2_Witness ==
    /\ Published(1)
    /\ len[1] = 15
    /\ last.range = 0 .. 7
    /\ \A i \in 8 .. 14 : mem[1][i + 1] \in FillVals
    /\ ~panicked

(* C3: a publish cycle for a process whose grant cannot be entered is a    *)
(* no-op that does not panic.                                              *)
C3_GrantFailureIsNoOp ==
    (last.op = "hook" /\ last.granted = "Err") => ~panicked

(* C4, as claimed: for a new record and a buffer of at least 4 bytes on    *)
(* every cycle, after N >= 1 completed publish cycles bytes 0 .. 3 decode  *)
(* to N.                                                                   *)
C4_CountEqualsCycles ==
    \A p \in Procs :
        (Published(p) /\ fit[p] /\ cycles[p] >= 1) =>
            FromLeBytes(Bytes(p, 0, 4)) = U32OfNat(cycles[p])

(* C4, amended: under the same conditions bytes 0 .. 3 decode to N - 1,    *)
(* the number of cycles completed before the N-th: 0 after the first       *)
(* cycle, 1 after the second.                                              *)
C4_CountEqualsEarlierCycles ==
    \A p \in Procs :
        (Published(p) /\ fit[p] /\ cycles[p] >= 1) =>
            FromLeBytes(Bytes(p, 0, 4)) = U32OfNat(cycles[p] - 1)

\* The example of the specification: a buffer of 8 bytes, after the second
\* cycle.
C4_Witness ==
    /\ Published(1)
    /\ fit[1]
    /\ cycles[1] = 2
    /\ len[1] = 8
    /\ FromLeBytes(Bytes(1, 0, 4)) = <<0, 1>>

(* C5: after a publish cycle on a buffer of at least 16 bytes, bytes       *)
(* 4 .. 7 decode to the pending-task count of that cycle modulo 2^32 and   *)
(* bytes 8 .. 15 to the clock reading of that cycle.                       *)
C5_LatestPendingAndTicks ==
    \A p \in Procs :
        (Published(p) /\ last.buflen >= 16) =>
            /\ FromLeBytes(Bytes(p, 4, 8)) = Low32(last.pending)
            /\ FromLeBytes(Bytes(p, 8, 16)) = last.now

\* A second cycle whose pending count does not fit 32 bits.
C5_Witness ==
    /\ Published(1)
    /\ last.buflen >= 16
    /\ cycles[1] = 2
    /\ last.pending = <<0, 1, 258, 772>>
    /\ last.now = <<258, 772, 1286, 1800>>
    /\ FromLeBytes(Bytes(1, 4, 8)) = <<258, 772>>

(* C6: the counter of a new record is 0; a publish cycle of p whose grant  *)
(* is entered advances p's counter by 1 modulo 2^32 and does not fault,    *)
(* also from 2^32 - 1; no other operation changes the counter of p.        *)
C6_CounterArithmetic ==
    [][\A p \in Procs :
        /\ (p \notin allocated /\ p \in allocated' /\ last'.op # "hook") =>
                count'[p] = <<0, 0>>
        /\ (last'.op = "hook" /\ last'.proc = p /\ last'.granted = "Ok") =>
                /\ ~panicked'
                /\ Succ32(IF p \in allocated THEN count[p] ELSE <<0, 0>>, count'[p])
        /\ (p \in allocated /\ ~(last'.op = "hook" /\ last'.proc = p)) =>
                count'[p] = count[p]]_vars

\* The cycle that read 2^32 - 1 and left 0.
C6_Witness ==
    /\ last.op = "hook"
    /\ last.proc = 1
    /\ last.read = <<Limb - 1, Limb - 1>>
    /\ count[1] = <<0, 0>>
    /\ ~panicked

C8_CommandsChangeNothing ==
    [][last'.op = "command" => UNCHANGED <<allocated, count, len, mem>>]_vars

\* A version query of a process without a record, while the other process
\* has a record, a buffer and a published cycle.
C8_Witness ==
    /\ last.op = "command"
    /\ last.arg = 1
    /\ last.proc = 2
    /\ allocated = {1}
    /\ len[1] = 16
    /\ cycles[1] = 1

(* C9: when the allocation of a record fails, allocate_grant returns the   *)
(* error, does not panic and leaves the process without a record and every *)
(* counter as it was; allocate_grant can then succeed for that process,    *)
(* and when it next does the record's counter is 0.                        *)
C9_AllocationFailurePropagates ==
    [][/\ (last'.op = "allocate_grant" /\ last'.granted = "Err") =>
            /\ last'.ret.kind = "Err"
            /\ ~panicked'
            /\ last'.proc \notin allocated'
            /\ UNCHANGED <<allocated, count>>
       /\ (last.op = "allocate_grant" /\ last.granted = "Err") =>
            ENABLED AllocateGrant(last.proc, "Ok")
       /\ (/\ last.op = "allocate_grant" /\ last.granted = "Err"
           /\ last'.op = "allocate_grant" /\ last'.granted = "Ok"
           /\ last'.proc = last.proc) =>
            /\ last'.ret.kind = "Ok"
            /\ last.proc \in allocated'
            /\ count'[last.proc] = <<0, 0>>]_vars

\* A failed allocation for process 2, in a running system.
C9_Witness ==
    /\ last.op = "allocate_grant"
    /\ last.granted = "Err"
    /\ last.ret.kind = "Err"
    /\ last.proc = 2
    /\ 2 \notin allocated
    /\ cycles[1] >= 1
    /\ ~panicked

(* C10: a publish cycle of p leaves the record, the buffer length and the  *)
(* memory of every other process as they were.                             *)
C10_ProcessIsolation ==
    [][\A p \in Procs, q \in Procs :
        (last'.op = "hook" /\ last'.proc = p /\ q # p) =>
            /\ count'[q] = count[q]
            /\ len'[q] = len[q]
            /\ mem'[q] = mem[q]
            /\ (q \in allocated') = (q \in allocated)]_vars

\* A full publish cycle of process 1 while process 2 holds the result of a
\* cycle of its own.
C10_Witness ==
    /\ Published(1)
    /\ last.buflen = 16
    /\ cycles[2] = 1
    /\ len[2] = 8
    /\ count[2] = <<0, 1>>
    /\ FromLeBytes(Bytes(2, 4, 8)) = <<0, 3>>
    /\ FromLeBytes(Bytes(1, 4, 8)) = <<0, 5>>

\* The field at offsets lo .. hi - 1 of p's memory decodes to v, a value a
\* publish cycle wrote.
FieldHolds(p, lo, hi, v) == v # <<>> /\ FromLeBytes(Bytes(p, lo, hi)) = v

\* The pending-task count as the buffer carries it.
PendingWritten(v) == IF v = <<>> THEN v ELSE Low32(v)

(* C11, as claimed: once a publish cycle of p has completed, every field   *)
(* that lies within the buffer p offers now holds the value its most       *)
(* recent publish cycle wrote, also after p changed the buffer's length.   *)
C11_ReadableFieldsAreFresh ==
    \A p \in Procs :
        (cycles[p] >= 1 /\ ~wrote[p].own) =>
            /\ len[p] >= 4 => FieldHolds(p, 0, 4, wrote[p].count)
            /\ len[p] >= 8 => FieldHolds(p, 4, 8, PendingWritten(wrote[p].pending))
            /\ len[p] >= 16 => FieldHolds(p, 8, 16, wrote[p].ticks)

(* C11, amended: every field that lay wholly within the buffer during the  *)
(* most recent publish cycle of p holds the value that cycle wrote,        *)
(* whatever length p has offered since, until p writes its memory itself.  *)
C11_WrittenFieldsAreFresh ==
    \A p \in Procs :
        (cycles[p] >= 1 /\ ~wrote[p].own) =>
            /\ wrote[p].count # <<>> => FieldHolds(p, 0, 4, wrote[p].count)
            /\ wrote[p].pending # <<>> =>
                    FieldHolds(p, 4, 8, PendingWritten(wrote[p].pending))
            /\ wrote[p].ticks # <<>> => FieldHolds(p, 8, 16, wrote[p].ticks)

\* The process has shrunk its buffer to 4 bytes after its second publish
\* cycle, which wrote all three fields.
C11_Witness ==
    /\ cycles[1] = 2
    /\ last.op = "allow"
    /\ len[1] = 4
    /\ wrote[1].ticks # <<>>
    /\ FieldHolds(1, 8, 16, wrote[1].ticks)

(* C13: the value a publish cycle writes at bytes 0 .. 3 is the counter    *)
(* it read before advancing it: right after a cycle on a buffer of at      *)
(* least 4 bytes the bytes decode to the counter read, and the record's    *)
(* counter is that value plus 1 modulo 2^32.                               *)
C13_WriteThenAdvance ==
    \A p \in Procs :
        (Published(p) /\ last.buflen >= 4) =>
            /\ FromLeBytes(Bytes(p, 0, 4)) = last.read
            /\ Succ32(FromLeBytes(Bytes(p, 0, 4)), count[p])

\* The cycle that wrote 2^32 - 1 and left the record at 0.
C13_Witness ==
    /\ Published(1)
    /\ last.buflen >= 4
    /\ FromLeBytes(Bytes(1, 0, 4)) = <<Limb - 1, Limb - 1>>
    /\ count[1] = <<0, 0>>

(* C14: a publish cycle of a process with a record advances the counter    *)
(* by 1 also when it writes no switch count (no buffer offered, the buffer  *)
(* not entered, fewer than 4 bytes), and leaves bytes 0 .. 3 alone; so a    *)
(* switch count that is written is the number of cycles completed since    *)
(* the record was allocated, the silent ones included.                     *)
C14_SilentCyclesCount ==
    [][\A p \in Procs :
        (last'.op = "hook" /\ last'.proc = p /\ last'.granted = "Ok") =>
            /\ (p \in allocated /\ last'.buflen < 4) =>
                    /\ Succ32(count[p], count'[p])
                    /\ Bytes(p, 0, 4)' = Bytes(p, 0, 4)
                    /\ last'.range = {}
            /\ last'.buflen >= 4 =>
                    FromLeBytes(Bytes(p, 0, 4))' = U32OfNat(cycles'[p] - 1)]_vars

\* The first switch count the process sees is 1: its first cycle found a
\* buffer too short for the field.
C14_Witness ==
    /\ Published(1)
    /\ cycles[1] = 2
    /\ ~fit[1]
    /\ last.buflen >= 4
    /\ FromLeBytes(Bytes(1, 0, 4)) = <<0, 1>>
    /\ count[1] = <<0, 2>>

\* Byte i (0-based) of the value v: (v div 256^i) mod 256.
ByteOf(v, i) ==
    LET limb == v[Len(v) - (i \div 2)]
    IN  (limb \div (IF i % 2 = 0 THEN 1 ELSE 256)) % 256

(* C15: every field a publish cycle writes is stored least significant     *)
(* byte first; the pending-task count is reduced modulo 2^32 first; the    *)
(* bytes decode to the counter, the reduced pending count and the clock    *)
(* reading.                                                                *)
C15_LittleEndianFields ==
    \A p \in Procs :
        Published(p) =>
            /\ last.buflen >= 4 =>
                /\ \A i \in 0 .. 3 : mem[p][i + 1] = ByteOf(last.read, i)
                /\ FromLeBytes(Bytes(p, 0, 4)) = last.read
            /\ last.buflen >= 8 =>
                /\ \A i \in 0 .. 3 : mem[p][4 + i + 1] = ByteOf(Low32(last.pending), i)
                /\ FromLeBytes(Bytes(p, 4, 8)) = Low32(last.pending)
            /\ last.buflen >= 16 =>
                /\ \A i \in 0 .. 7 : mem[p][8 + i + 1] = ByteOf(last.now, i)
                /\ FromLeBytes(Bytes(p, 8, 16)) = last.now

\* A pending count of 2^32 + 0x01020304 and a clock reading of
\* 0x0102030405060708, as the bytes in the buffer.
C15_Witness ==
    /\ Published(1)
    /\ last.buflen >= 16
    /\ last.pending = <<0, 1, 258, 772>>
    /\ Bytes(1, 4, 8) = <<4, 3, 2, 1>>
    /\ Bytes(1, 8, 16) = <<8, 7, 6, 5, 4, 3, 2, 1>>

(* C16: one-directional data flow.  In two runs of the same operations     *)
(* with the same inputs, whose buffers hold different bytes initially and  *)
(* wherever the process wrote, the counters are the same after every step, *)
(* every publish cycle addresses the same bytes and leaves the same values *)
(* in them, and the cycle changes nothing but the buffer and the counter   *)
(* of the process it is for.                                               *)
C16_OneDirectionalFlow ==
    [][/\ twin'.count = count'
       /\ \A p \in Procs :
            (last'.op = "hook" /\ last'.proc = p) =>
                /\ twin'.panicked = panicked'
                /\ \A i \in 0 .. MaxLen - 1 :
                        IF i \in last'.range
                        THEN twin'.mem[p][i + 1] = mem'[p][i + 1]
                        ELSE /\ twin'.mem[p][i + 1] = twin.mem[p][i + 1]
                             /\ mem'[p][i + 1] = mem[p][i + 1]
                /\ len' = len
                /\ \A q \in Procs \ {p} :
                        /\ mem'[q] = mem[q]
                        /\ twin'.mem[q] = twin.mem[q]
                        /\ count'[q] = count[q]
                        /\ (q \in allocated') = (q \in allocated)]_vars

\* The second cycle of a process on 8 bytes: the two runs agree on the
\* bytes written and on the counter, and still differ beyond them.
C16_Witness ==
    /\ Published(1)
    /\ cycles[1] = 2
    /\ last.range = 0 .. 7
    /\ Bytes(1, 0, 8) = SubSeq(twin.mem[1], 1, 8)
    /\ \A i \in 9 .. MaxLen : mem[1][i] # twin.mem[1][i]
    /\ twin.count[1] = <<0, 2>>

(* C17: classification of MAC addresses.  For every address the answers    *)
(* are: multicast iff the first byte is odd, broadcast iff all six bytes   *)
(* are 0xFF, unicast iff neither; so a broadcast address is multicast and  *)
(* not unicast, and the all-zero default address is unicast.               *)
C17_MacClassification ==
    report.asked =>
        /\ report.multicast = (mac_address[1] % 2 = 1)
        /\ report.broadcast = (\A i \in 1 .. MacLen : mac_address[i] = 255)
        /\ report.unicast = (~report.multicast /\ ~report.broadcast)
        /\ report.broadcast => (report.multicast /\ ~report.unicast)
        /\ (\A i \in 1 .. MacLen : mac_address[i] = 0) => report.unicast

\* The address one bit away from broadcast, ff-ff-ff-ff-ff-fe: multicast,
\* neither broadcast nor unicast.
C17_Witness ==
    /\ report.asked
    /\ mac_address = <<255, 255, 255, 255, 255, 254>>
    /\ report.multicast
    /\ ~report.broadcast
    /\ ~report.unicast

====
